---------------------------- MODULE Spec2Model ----------------------------
(***************************************************************************)
(* PitchForge AI: the pitch-deck pipeline of src/backend/generate_ppt.py   *)
(* (generate_pitch_deck, content generated by src/backend/ai_generator.py) *)
(* and of src/generate_ppt.py (main, content loaded from the environment). *)
(*                                                                         *)
(* Conventions of the model                                                *)
(*  - a Python dict is a sequence of [k, v] entries with distinct keys, in *)
(*    insertion order;                                                     *)
(*  - a text is a tuple of lexemes, so "{{" + key + "}}" is                *)
(*    <<"{{", key, "}}">>; a sheet title is its tuple of characters;       *)
(*  - a number is counted in tenths (0.5 is 5, 150 is 1500);               *)
(*  - every remote call is appended to log when it is issued, with ok      *)
(*    telling whether it succeeded.                                        *)
(***************************************************************************)
EXTENDS Integers, Sequences, FiniteSets, TLC

VARIABLES
    variant,            \* "backend" (src/backend/) or "root" (src/)
    entry,              \* the function the run entered through
    env,                \* os.environ after load_dotenv(): name -> text
    token_file,         \* token.pickle: [exists, creds]
    oauth_file,         \* whether the OAuth client-secrets file exists
    pc,                 \* position of the run
    outcome,            \* [status, exc, at]
    trace,              \* the functions invoked so far, in order
    log,                \* the remote calls and local writes issued so far
    generated_content,  \* generate_pitch_deck: generated_content
    market_data,        \* market_data
    config,             \* template_id, output_name, output_file
    services,           \* whether the three service clients are built
    placeholders,       \* placeholders
    presentation_id,    \* presentation_id
    chart,              \* update_market_chart: chart_object_ids, linked_sheet_ids,
                        \* sheet_id, the sheets of sheet_meta, chart_tab_name
    drive,              \* the copied presentation as the document service holds it
    cells,              \* spreadsheet id -> the blocks written to it
    files,              \* local files written by the export
    response,           \* app.py: what POST /generate answered
    clock,              \* the wall clock, in seconds: int(time.time())
    peer                \* another request to POST /generate: [pc, path, status, body]

vars == << variant, entry, env, token_file, oauth_file, pc, outcome, trace, log,
           generated_content, market_data, config, services, placeholders,
           presentation_id, chart, drive, cells, files, response, clock, peer >>

inputs == << variant, entry, env, oauth_file >>
remote == << drive, cells, files >>

-----------------------------------------------------------------------------
(* Bounds of the model *)

\* slides of a template
MaxSlides == 2
\* tabs of a linked spreadsheet
MaxSheets == 2
\* seconds the wall clock advances while two requests are served
MaxTicks == 1

-----------------------------------------------------------------------------
(* Python values *)

None == [set |-> FALSE, text |-> <<>>]
Str(t) == [set |-> TRUE, text |-> t]
\* `not value` for a value that is None or a string
Falsy(value) == ~value.set \/ Len(value.text) = 0

Returned(v) == [raised |-> FALSE, exc |-> "", value |-> v]
Raised(x) == [raised |-> TRUE, exc |-> x, value |-> None]

Entry(key, value) == [k |-> key, v |-> value]
Dict(items) == [type |-> "dict", items |-> items]
EmptyDict == Dict(<< >>)
\* a parsed value that is not a mapping (a JSON array)
List == [type |-> "list", items |-> << >>]

Keys(d) == {d.items[i].k : i \in DOMAIN d.items}
IndexOf(d, key) == CHOOSE i \in DOMAIN d.items : d.items[i].k = key
\* d[key] = value: an existing key keeps its position
DictSet(d, key, value) ==
    IF key \in Keys(d)
    THEN Dict([d.items EXCEPT ![IndexOf(d, key)] = Entry(key, value)])
    ELSE Dict(Append(d.items, Entry(key, value)))
\* d.get(key, default); AttributeError on a value that has no get
DictGet(d, key, default) ==
    IF d.type # "dict" THEN Raised("AttributeError")
    ELSE IF key \in Keys(d) THEN Returned(d.items[IndexOf(d, key)].v)
    ELSE Returned(default)
\* d[key]; KeyError on an absent key
DictItem(d, key) ==
    IF d.type # "dict" THEN Raised("TypeError")
    ELSE IF key \in Keys(d) THEN Returned(d.items[IndexOf(d, key)].v)
    ELSE Raised("KeyError")

Range(s) == {s[i] : i \in DOMAIN s}

-----------------------------------------------------------------------------
(* src/backend/ai_generator.py, src/ai_generator.py *)

PITCH_DECK_SCHEMA ==
   << "COMPANY_NAME", "TAGLINE", "SUBTITLE", "PROBLEM_1",
      "PROBLEM_2", "PROBLEM_3", "PROBLEM_4", "INSIGHT_1",
      "INSIGHT_2", "INSIGHT_3", "SOLUTION_1", "SOLUTION_2",
      "SOLUTION_3", "SOLUTION_4", "FLOW_1", "FLOW_2",
      "FLOW_3", "FLOW_4", "TAM_VALUE", "SAM_VALUE",
      "SOM_VALUE", "WHY_NOW_1", "WHY_NOW_2", "WHY_NOW_3",
      "WHY_NOW_4", "BUSINESS_MODEL_1", "BUSINESS_MODEL_2", "BUSINESS_MODEL_3",
      "GTM_1", "GTM_2", "GTM_3", "GTM_4",
      "COMPETITION_1", "COMPETITION_2", "COMPETITION_3", "RISK_1",
      "RISK_2", "RISK_3", "VISION_STATEMENT" >>

SchemaFields == Range(PITCH_DECK_SCHEMA)

\* os.getenv(key, default)
os_getenv(e, key, default) ==
    IF key \in DOMAIN e THEN Str(e[key]) ELSE default

\* A reply text is a sequence of lexemes [lex, val]: an opening code fence
\* with its json tag ("fence_json"), a bare code fence ("fence"), a JSON
\* object (val: its members as written, a sequence of entries), a JSON array,
\* or prose.
Lexeme(l, val) == [lex |-> l, val |-> val]
NotFence(l) == l.lex \notin {"fence_json", "fence"}
\* the two replace calls and the strip applied to response.text
strip_fences(text) == SelectSeq(text, NotFence)

\* the dict of a JSON object: a repeated member keeps the first position and
\* the last value
ObjectOf(members) ==
    LET First(i) == \A j \in 1..(i - 1) : members[j].k # members[i].k
        Last(key) == CHOOSE i \in DOMAIN members :
                        /\ members[i].k = key
                        /\ \A j \in DOMAIN members : members[j].k = key => j <= i
        order == SelectSeq([i \in DOMAIN members |-> i], First)
    IN  Dict([n \in DOMAIN order |->
                Entry(members[order[n]].k, members[Last(members[order[n]].k)].v)])

json_loads(text) ==
    IF Len(text) = 1 /\ text[1].lex = "object"
    THEN Returned(ObjectOf(text[1].val))
    ELSE IF Len(text) = 1 /\ text[1].lex = "array" THEN Returned(List)
    ELSE Raised("JSONDecodeError")

Num(n) == [kind |-> "num", n |-> n]
\* a JSON string where a number was asked for
NonNum == [kind |-> "str", n |-> 1]

\* the hardcoded fallback triple, in tenths
FallbackMarketData(v) ==
    IF v = "backend"
    THEN Dict(<< Entry("TAM", Num(1500)), Entry("SAM", Num(250)), Entry("SOM", Num(5)) >>)
    ELSE Dict(<< Entry("TAM", Num(100)), Entry("SAM", Num(50)), Entry("SOM", Num(10)) >>)

\* a parsed reply whose keys are not those of the schema is dropped
generate_pitch_metadata_Validated(e, svc) ==
    LET api_key == os_getenv(e, "GEMINI_API_KEY", None) IN
    IF Falsy(api_key)
    THEN [raised |-> TRUE, exc |-> "ValueError", called |-> FALSE, value |-> EmptyDict]
    ELSE IF svc.error
    THEN [raised |-> FALSE, exc |-> "", called |-> TRUE, value |-> EmptyDict]
    ELSE LET parsed == json_loads(strip_fences(svc.text)) IN
         [raised |-> FALSE, exc |-> "", called |-> TRUE,
          value |-> IF parsed.raised THEN EmptyDict
                    ELSE IF parsed.value.type # "dict" THEN EmptyDict
                    ELSE IF Keys(parsed.value) # SchemaFields THEN EmptyDict
                    ELSE parsed.value]

\* The outcome of client.models.generate_content: svc = [error, text].
\* Result: [raised, exc, called, value], called telling whether the
\* generation service was contacted.
generate_pitch_metadata(e, svc) ==
    LET api_key == os_getenv(e, "GEMINI_API_KEY", None) IN
    IF Falsy(api_key)
    THEN [raised |-> TRUE, exc |-> "ValueError", called |-> FALSE, value |-> EmptyDict]
    ELSE IF svc.error
    THEN [raised |-> FALSE, exc |-> "", called |-> TRUE, value |-> EmptyDict]
    ELSE LET parsed == json_loads(strip_fences(svc.text)) IN
         [raised |-> FALSE, exc |-> "", called |-> TRUE,
          value |-> IF parsed.raised THEN EmptyDict ELSE parsed.value]

\* a reply that does not parse yields the empty mapping, as for the metadata
generate_market_data_EmptyOnError(v, e, svc) ==
    LET api_key == os_getenv(e, "GEMINI_API_KEY", None) IN
    IF Falsy(api_key)
    THEN [raised |-> FALSE, exc |-> "", called |-> FALSE, value |-> FallbackMarketData(v)]
    ELSE IF svc.error
    THEN [raised |-> FALSE, exc |-> "", called |-> TRUE, value |-> FallbackMarketData(v)]
    ELSE LET parsed == json_loads(strip_fences(svc.text)) IN
         [raised |-> FALSE, exc |-> "", called |-> TRUE,
          value |-> IF parsed.raised THEN EmptyDict ELSE parsed.value]

\* generate_market_data(idea, context)
generate_market_data(v, e, svc) ==
    LET api_key == os_getenv(e, "GEMINI_API_KEY", None) IN
    IF Falsy(api_key)
    THEN [raised |-> FALSE, exc |-> "", called |-> FALSE, value |-> FallbackMarketData(v)]
    ELSE IF svc.error
    THEN [raised |-> FALSE, exc |-> "", called |-> TRUE, value |-> FallbackMarketData(v)]
    ELSE LET parsed == json_loads(strip_fences(svc.text)) IN
         [raised |-> FALSE, exc |-> "", called |-> TRUE,
          value |-> IF parsed.raised THEN FallbackMarketData(v) ELSE parsed.value]


-----------------------------------------------------------------------------
(* src/backend/generate_ppt.py, src/generate_ppt.py: the functions *)

\* a variable that is not set reads as the empty string
get_env_variable_Lenient(e, key, default) ==
    LET value == os_getenv(e, key, default) IN
    Returned(value.text)

\* get_env_variable(key, default): ValueError when the value is None
get_env_variable(e, key, default) ==
    LET value == os_getenv(e, key, default) IN
    IF ~value.set THEN Raised("ValueError") ELSE Returned(value.text)

\* f"{{{{{key}}}}}"
Wrap(key) == << "{{", key, "}}" >>

\* {f"{{{{{key}}}}}": value for key, value in generated_data.items()}
prepare_placeholders(generated_data) ==
    Dict([i \in DOMAIN generated_data.items |->
            Entry(Wrap(generated_data.items[i].k), generated_data.items[i].v)])

\* the environment variables load_placeholders reads, in the order of its
\* dict literal; the key of each is the name wrapped in double braces
PLACEHOLDER_VARIABLES ==
   << "COMPANY_NAME", "TAGLINE", "SUBTITLE", "PROBLEM_1",
      "PROBLEM_2", "PROBLEM_3", "PROBLEM_4", "INSIGHT_1",
      "INSIGHT_2", "INSIGHT_3", "SOLUTION_1", "SOLUTION_2",
      "SOLUTION_3", "SOLUTION_4", "FLOW_1", "FLOW_2",
      "FLOW_3", "FLOW_4", "TAM_VALUE", "SAM_VALUE",
      "SOM_VALUE", "WHY_NOW_1", "WHY_NOW_2", "WHY_NOW_3",
      "WHY_NOW_4", "BUSINESS_MODEL_1", "BUSINESS_MODEL_2", "BUSINESS_MODEL_3",
      "GTM_1", "GTM_2", "GTM_3", "GTM_4",
      "COMPETITION_1", "COMPETITION_2", "COMPETITION_3", "RISK_1",
      "RISK_2", "RISK_3", "VISION_STATEMENT" >>

\* load_placeholders(): the first variable that is not set raises
load_placeholders(e) ==
    IF \E i \in DOMAIN PLACEHOLDER_VARIABLES :
          get_env_variable(e, PLACEHOLDER_VARIABLES[i], None).raised
    THEN Raised("ValueError")
    ELSE Returned(Dict([i \in DOMAIN PLACEHOLDER_VARIABLES |->
            Entry(Wrap(PLACEHOLDER_VARIABLES[i]),
                  get_env_variable(e, PLACEHOLDER_VARIABLES[i], None).value)]))

\* float(text): the text of a decimal literal is <<"float", tenths>>
float(text) ==
    IF Len(text) = 2 /\ text[1] = "float" THEN Returned(Num(text[2]))
    ELSE Raised("ValueError")

FloatOfEnv(e, key) ==
    LET got == get_env_variable(e, key, None) IN
    IF got.raised THEN got ELSE float(got.value)

\* load_market_data()
load_market_data(e) ==
    LET tam == FloatOfEnv(e, "TAM_NUMERIC")
        sam == FloatOfEnv(e, "SAM_NUMERIC")
        som == FloatOfEnv(e, "SOM_NUMERIC")
    IN  IF tam.raised \/ sam.raised \/ som.raised THEN Raised("ValueError")
        ELSE Returned(Dict(<< Entry("TAM", tam.value), Entry("SAM", sam.value),
                              Entry("SOM", som.value) >>))

\* the instructions match without regard to case
ReplaceRequests_IgnoreCase(map) ==
    [i \in DOMAIN map.items |->
        [replaceAllText |->
            [containsText |-> [text |-> map.items[i].k, matchCase |-> FALSE],
             replaceText |-> map.items[i].v]]]

\* one replaceAllText instruction per entry of the map, in its order
ReplaceRequests(map) ==
    [i \in DOMAIN map.items |->
        [replaceAllText |->
            [containsText |-> [text |-> map.items[i].k, matchCase |-> TRUE],
             replaceText |-> map.items[i].v]]]

RECURSIVE PageElements(_)
\* the page elements of the slides, slide by slide
PageElements(slides) ==
    IF slides = << >> THEN << >>
    ELSE Head(slides) \o PageElements(Tail(slides))

\* every page element is taken for a chart
IsSheetsChart_AnyElement(element) == TRUE

\* "sheetsChart" in element
IsSheetsChart(element) == element.sheetsChart # ""

\* the scan of the presentation: chart_object_ids and linked_sheet_ids
FindLinkedCharts(slides) ==
    LET charts == SelectSeq(PageElements(slides), IsSheetsChart) IN
    [chart_object_ids |-> [i \in DOMAIN charts |-> charts[i].objectId],
     linked_sheet_ids |-> {charts[i].sheetsChart : i \in DOMAIN charts}]

\* "[Chart"
CHART_PREFIX == << "[", "C", "h", "a", "r", "t" >>

\* title.startswith(prefix)
StartsWith(title, prefix) ==
    /\ Len(title) >= Len(prefix)
    /\ SubSeq(title, 1, Len(prefix)) = prefix

\* the loop over the sheets does not stop at the first match
SelectChartTab_NoBreak(sheets) ==
    LET marked == {i \in DOMAIN sheets : StartsWith(sheets[i], CHART_PREFIX)} IN
    IF marked # {}
    THEN sheets[CHOOSE i \in marked : \A j \in marked : i >= j]
    ELSE sheets[1]

\* the tab the values go to: the first sheet whose title starts with the
\* prefix, else the first sheet
SelectChartTab(sheets) ==
    LET marked == {i \in DOMAIN sheets : StartsWith(sheets[i], CHART_PREFIX)} IN
    IF marked # {}
    THEN sheets[CHOOSE i \in marked : \A j \in marked : i <= j]
    ELSE sheets[1]

\* the value is written in the unit it came in
Times1000_Unscaled(value) == value

\* value * 1000: a number is scaled, a string is repeated
Times1000(value) == [kind |-> value.kind, n |-> value.n * 1000]

\* the header row is left out
SheetValues_NoHeader(v, data) ==
    LET tam == IF v = "backend" THEN DictGet(data, "TAM", Num(1500)) ELSE DictItem(data, "TAM")
        sam == IF v = "backend" THEN DictGet(data, "SAM", Num(250)) ELSE DictItem(data, "SAM")
        som == IF v = "backend" THEN DictGet(data, "SOM", Num(5)) ELSE DictItem(data, "SOM")
        Cell(x) == IF v = "backend" THEN Times1000(x) ELSE x
    IN  IF tam.raised THEN tam
        ELSE IF sam.raised THEN sam
        ELSE IF som.raised THEN som
        ELSE Returned(<< << "TAM", Cell(tam.value) >>,
                         << "SAM", Cell(sam.value) >>,
                         << "SOM", Cell(som.value) >> >>)

\* sheet_values: the backend reads with defaults and multiplies by 1000,
\* the root variant indexes the mapping and writes the values as they are
SheetValues(v, data) ==
    LET tam == IF v = "backend" THEN DictGet(data, "TAM", Num(1500)) ELSE DictItem(data, "TAM")
        sam == IF v = "backend" THEN DictGet(data, "SAM", Num(250)) ELSE DictItem(data, "SAM")
        som == IF v = "backend" THEN DictGet(data, "SOM", Num(5)) ELSE DictItem(data, "SOM")
        Cell(x) == IF v = "backend" THEN Times1000(x) ELSE x
    IN  IF tam.raised THEN tam
        ELSE IF sam.raised THEN sam
        ELSE IF som.raised THEN som
        ELSE Returned(<< << "Metric", "Value" >>,
                         << "TAM", Cell(tam.value) >>,
                         << "SAM", Cell(sam.value) >>,
                         << "SOM", Cell(som.value) >> >>)

\* f"'{chart_tab_name}'!A1:B4"
ChartRange(tab) == [tab |-> tab, a1 |-> "A1:B4"]

\* only the first chart is refreshed
RefreshRequests_FirstOnly(ids) ==
    [i \in DOMAIN ids \cap {1} |-> [refreshSheetsChart |-> [objectId |-> ids[i]]]]

\* one refreshSheetsChart instruction per chart object id
RefreshRequests(ids) ==
    [i \in DOMAIN ids |-> [refreshSheetsChart |-> [objectId |-> ids[i]]]]


-----------------------------------------------------------------------------
(* The document service: replaceAllText on the text runs of a presentation *)

\* case folding of the lexemes the templates use
Fold(lexeme) == IF lexeme = "company_name" THEN "COMPANY_NAME" ELSE lexeme
FoldText(t) == [i \in DOMAIN t |-> Fold(t[i])]

Matches(run, containsText) ==
    IF containsText.matchCase THEN run = containsText.text
    ELSE FoldText(run) = FoldText(containsText.text)

ApplyReplace(runs, request) ==
    {IF Matches(r, request.replaceAllText.containsText)
        THEN request.replaceAllText.replaceText ELSE r : r \in runs}

RECURSIVE ApplyFirst(_, _, _)
\* the first n requests of a batch applied in order
ApplyFirst(runs, requests, n) ==
    IF n = 0 THEN runs
    ELSE LET before == ApplyFirst(runs, requests, n - 1) IN
         ApplyReplace(before, requests[n])

ApplyBatch(runs, requests) == ApplyFirst(runs, requests, Len(requests))

-----------------------------------------------------------------------------
(* Inputs: what the environment, the generation service, the template and *)
(* the linked spreadsheets can hold                                       *)

Restrict(f, S) == [x \in S |-> f[x]]
Without(f, key) == Restrict(f, DOMAIN f \ {key})
SeqsUpTo(S, n) == UNION {[1..k -> S] : k \in 0..n}

GeneratedText(key) == << "generated", key >>
FullMembers ==
    [i \in DOMAIN PITCH_DECK_SCHEMA |->
        Entry(PITCH_DECK_SCHEMA[i], GeneratedText(PITCH_DECK_SCHEMA[i]))]

\* the JSON objects the metadata prompt is answered with: the schema, the
\* schema without its first field, with a field of its own, with a member
\* written twice, and the empty object
MetadataObjects ==
    { FullMembers,
      Tail(FullMembers),
      Append(FullMembers, Entry("TEAM_1", GeneratedText("TEAM_1"))),
      Append(FullMembers, Entry("COMPANY_NAME", GeneratedText("again"))),
      << >> }

Reply(text) == [error |-> FALSE, text |-> text]
ServiceError == [error |-> TRUE, text |-> << >>]
Bare(lexeme) == << lexeme >>
Fenced(lexeme) == << Lexeme("fence_json", << >>), lexeme, Lexeme("fence", << >>) >>
Chatty(lexeme) == << Lexeme("prose", << >>), lexeme >>

MetadataReplies ==
    { ServiceError,
      Reply(Bare(Lexeme("array", << >>))),
      Reply(Chatty(Lexeme("object", FullMembers))),
      Reply(Fenced(Lexeme("object", FullMembers))) }
    \cup { Reply(Bare(Lexeme("object", o))) : o \in MetadataObjects }

Triple(tam, sam, som) == << Entry("TAM", tam), Entry("SAM", sam), Entry("SOM", som) >>

\* the JSON objects the market prompt is answered with (numbers in tenths)
MarketObjects ==
    { Triple(Num(1500), Num(250), Num(5)),
      Triple(Num(2000000), Num(400000), Num(6000)),
      Triple(Num(10), Num(50), Num(0)),
      Triple(NonNum, Num(250), Num(5)),
      << Entry("TAM", Num(800)) >> }

MarketReplies ==
    { ServiceError,
      Reply(Bare(Lexeme("array", << >>))),
      Reply(Bare(Lexeme("prose", << >>))),
      Reply(Fenced(Lexeme("object", Triple(Num(1500), Num(250), Num(5))))) }
    \cup { Reply(Bare(Lexeme("object", o))) : o \in MarketObjects }

\* the text runs of a template: every token of the schema, a token in
\* lower case, and text that is no token
RunsFull ==
    {Wrap(PITCH_DECK_SCHEMA[i]) : i \in DOMAIN PITCH_DECK_SCHEMA}
        \cup { << "{{", "company_name", "}}" >>, << "Confidential" >> }
RunsPartial == { Wrap("COMPANY_NAME"), Wrap("VISION_STATEMENT"), << "Confidential" >> }

\* a slide is the sequence of its page elements, each a shape ("") or a
\* chart linked to a spreadsheet
SlideLayouts == { << "" >>, << "sheet-A" >>, << "sheet-B", "sheet-A" >> }
SpreadsheetIds == { "sheet-A", "sheet-B" }

SlidesOf(layouts) ==
    [s \in DOMAIN layouts |->
        [j \in DOMAIN layouts[s] |->
            [objectId |-> << s, j >>, sheetsChart |-> layouts[s][j]]]]

Template(runs, layouts) == [runs |-> runs, slides |-> SlidesOf(layouts)]

\* every template of at most MaxSlides slides
ChartTemplates == {Template(RunsFull, l) : l \in SeqsUpTo(SlideLayouts, MaxSlides)}
\* the templates of one slide at most, with each set of text runs
TextTemplates ==
    {Template(r, l) : r \in {RunsFull, RunsPartial}, l \in SeqsUpTo(SlideLayouts, 1)}

Title_Chart == << "[", "C", "h", "a", "r", "t", "]" >>
Title_Chart2 == << "[", "C", "h", "a", "r", "t", " ", "2", "]" >>
Title_DataChart == << "D", "a", "t", "a", " ", "[", "C", "h", "a", "r", "t", "]" >>
Title_chart == << "[", "c", "h", "a", "r", "t", "]" >>
Title_Sheet1 == << "S", "h", "e", "e", "t", "1" >>

\* the tabs of a linked spreadsheet (a spreadsheet has at least one)
ChartTabs ==
    (SeqsUpTo({Title_Chart, Title_Chart2, Title_DataChart}, MaxSheets) \ { << >> })
        \cup { << Title_chart >>, << Title_chart, Title_Chart >>,
               << Title_Sheet1 >>, << Title_Sheet1, Title_Chart2 >> }
TextTabs == { << Title_Sheet1 >>, << Title_Sheet1, Title_Chart >> }

\* int(time.time())
Seconds == { 1700000000 }

Creds(valid, expired, refresh_token) ==
    [valid |-> valid, expired |-> expired, refresh_token |-> refresh_token]
NoToken == [exists |-> FALSE, creds |-> Creds(FALSE, FALSE, FALSE)]
ValidToken == [exists |-> TRUE, creds |-> Creds(TRUE, FALSE, TRUE)]
\* stored credentials are valid only while they are not expired
TokenFiles ==
    { NoToken }
    \cup { f \in { [exists |-> TRUE, creds |-> Creds(v, x, r)] :
                       v \in BOOLEAN, x \in BOOLEAN, r \in BOOLEAN } :
             ~(f.creds.valid /\ f.creds.expired) }

BackendEnv ==
    [TEMPLATE_PRESENTATION_ID |-> << "template-1" >>, GEMINI_API_KEY |-> << "key" >>]
BackendEnvs ==
    { BackendEnv,
      Without(BackendEnv, "TEMPLATE_PRESENTATION_ID"),
      Without(BackendEnv, "GEMINI_API_KEY"),
      [BackendEnv EXCEPT !.GEMINI_API_KEY = << >>],
      Restrict(BackendEnv, {}) }

Numerics(tam, sam, som) ==
    [TAM_NUMERIC |-> tam, SAM_NUMERIC |-> sam, SOM_NUMERIC |-> som]
Literal(n) == << "float", n >>
RootEnvWith(numerics) ==
    [name \in Range(PLACEHOLDER_VARIABLES) |-> << "configured", name >>]
        @@ [TEMPLATE_PRESENTATION_ID |-> << "template-1" >>]
        @@ numerics
RootEnv == RootEnvWith(Numerics(Literal(105), Literal(21), Literal(5)))
\* complete environments, which differ in the market sizes
RootEnvsComplete ==
    { RootEnv,
      RootEnvWith(Numerics(Literal(2000000), Literal(400000), Literal(6000))),
      RootEnvWith(Numerics(Literal(10), Literal(50), Literal(0))) }
RootEnvs ==
    RootEnvsComplete
    \cup { Without(RootEnv, "TEMPLATE_PRESENTATION_ID"),
           Without(RootEnv, "COMPANY_NAME"),
           Without(RootEnv, "RISK_2"),
           Without(RootEnv, "SAM_NUMERIC"),
           [RootEnv EXCEPT !.SOM_NUMERIC = << "text", 0 >>] }


-----------------------------------------------------------------------------
(* The run *)

Running == [status |-> "running", exc |-> "", at |-> ""]
\* generate_pitch_metadata and generate_market_data called on their own
DirectCall == entry \in {"generate_pitch_metadata", "generate_market_data"}
\* where the run goes when the entry function is left: generate_deck goes on
\* to build its response
Exit == IF entry = "generate_deck" THEN "respond" ELSE "done"
\* a call issued by function site to service svc; body is what is sent, and
\* for the generation service what came back
Call(site, svc, op, id, body, ok) ==
    [site |-> site, svc |-> svc, op |-> op, id |-> id, body |-> body, ok |-> ok]

\* the failed step is tried again
Raise_Retry(exc, at) ==
    /\ pc' = pc
    /\ outcome' = outcome

\* the exception is caught where it is raised and the run goes on to return
Raise_Swallowed(exc, at) ==
    /\ pc' = "return"
    /\ outcome' = outcome

\* an exception leaves the run: nothing catches it before the entry point
Raise(exc, at) ==
    /\ pc' = Exit
    /\ outcome' = [status |-> "raised", exc |-> exc, at |-> at]

Return ==
    /\ pc' = Exit
    /\ outcome' = [status |-> "returned", exc |-> "", at |-> ""]

Goto(next) ==
    /\ pc' = next
    /\ outcome' = outcome

\* update_market_chart returns: the pipeline goes on to the export, a call
\* of the function on its own is over
ChartDone ==
    IF entry = "update_market_chart" THEN Return ELSE Goto("export_presentation")

NoChart ==
    [chart_object_ids |-> << >>, linked_sheet_ids |-> {}, sheet_id |-> "",
     sheets |-> << >>, chart_tab_name |-> << >>]
NoDocument == [exists |-> FALSE, id |-> "", name |-> << >>, runs |-> {}, slides |-> << >>]
\* no file content
NoBody == [path |-> << >>, bytes |-> "", runs |-> {}]
NoResponse == [status |-> 0, kind |-> "", detail |-> << >>, body |-> NoBody]
\* no second request
NoPeer == [pc |-> "absent", path |-> << >>, status |-> 0, body |-> NoBody]
NoConfig == [template_id |-> << >>, output_name |-> << >>, output_file |-> << >>]

FirstStep(v, en) ==
    IF en # "pipeline" THEN en
    ELSE IF v = "backend" THEN "generate_pitch_metadata"
    ELSE "load_configuration"

EnvsOf(v, en) ==
    IF en # "pipeline" \/ v = "backend" THEN BackendEnvs ELSE RootEnvs

InitWith(Entries, Complete, Tokens, OauthFiles) ==
    /\ variant \in {"backend", "root"}
    /\ entry \in Entries
    /\ entry = "generate_deck" => variant = "backend"
    /\ env \in IF Complete
               THEN (IF variant = "backend" THEN {BackendEnv} ELSE RootEnvsComplete)
               ELSE EnvsOf(variant, entry)
    /\ token_file \in Tokens
    /\ oauth_file \in OauthFiles
    /\ pc = FirstStep(variant, entry)
    /\ outcome = Running
    /\ trace = << >>
    /\ log = << >>
    /\ generated_content = EmptyDict
    /\ market_data = EmptyDict
    /\ config = NoConfig
    /\ services = FALSE
    /\ placeholders = EmptyDict
    /\ presentation_id = ""
    /\ chart = NoChart
    /\ drive = NoDocument
    /\ cells = [id \in SpreadsheetIds |-> << >>]
    /\ files = {}
    /\ response = NoResponse
    /\ clock \in Seconds
    /\ peer = NoPeer

\* generate_pitch_metadata(idea, context)
StepGenerateMetadata(Replies) ==
    /\ pc = "generate_pitch_metadata"
    /\ \E svc \in Replies :
        LET r == generate_pitch_metadata(env, svc) IN
        /\ trace' = Append(trace, "generate_pitch_metadata")
        /\ log' = IF r.called
                  THEN Append(log, Call("generate_pitch_metadata", "genai", "generate_content", "metadata",
                                   << svc >>, ~svc.error))
                  ELSE log
        /\ IF r.raised
           THEN Raise(r.exc, "generate_pitch_metadata") /\ UNCHANGED generated_content
           ELSE /\ generated_content' = r.value
                /\ IF DirectCall THEN Return ELSE Goto("generate_market_data")
    /\ UNCHANGED << inputs, clock, peer, response, token_file, market_data, config, services, placeholders,
                    presentation_id, chart, remote >>

\* generate_market_data(idea, context)
StepGenerateMarketData(Replies) ==
    /\ pc = "generate_market_data"
    /\ \E svc \in Replies :
        LET r == generate_market_data(variant, env, svc) IN
        /\ trace' = Append(trace, "generate_market_data")
        /\ log' = IF r.called
                  THEN Append(log, Call("generate_market_data", "genai", "generate_content", "market",
                                   << svc >>, ~svc.error))
                  ELSE log
        /\ IF r.raised
           THEN Raise(r.exc, "generate_market_data") /\ UNCHANGED market_data
           ELSE /\ market_data' = r.value
                /\ IF DirectCall THEN Return ELSE Goto("load_configuration")
    /\ UNCHANGED << inputs, clock, peer, response, token_file, generated_content, config, services, placeholders,
                    presentation_id, chart, remote >>

\* a path whose name is the minute, not the second
OutputFile_ByMinute(t) == << "cwd", "pitch_deck_", t \div 60, ".pptx" >>
\* os.path.join(os.getcwd(), f"pitch_deck_{int(time.time())}.pptx")
OutputFile(t) == << "cwd", "pitch_deck_", t, ".pptx" >>

\* the company name is required: generated_content["COMPANY_NAME"]
BackendConfiguration_Strict(t) ==
    LET template == get_env_variable(env, "TEMPLATE_PRESENTATION_ID", None)
        company == DictItem(generated_content, "COMPANY_NAME")
    IN  IF template.raised THEN template
        ELSE IF company.raised THEN company
        ELSE Returned([template_id |-> template.value,
                       output_name |-> << "Pitch Deck - " >> \o company.value,
                       output_file |-> << "cwd", "pitch_deck_", t, ".pptx" >>])

\* generate_pitch_deck: template_id, output_name, output_file
BackendConfiguration(t) ==
    LET template == get_env_variable(env, "TEMPLATE_PRESENTATION_ID", None)
        company == DictGet(generated_content, "COMPANY_NAME", << "Startup" >>)
    IN  IF template.raised THEN template
        ELSE IF company.raised THEN company
        ELSE Returned([template_id |-> template.value,
                       output_name |-> << "Pitch Deck - " >> \o company.value,
                       output_file |-> OutputFile(t)])

\* main: template_id, output_name, output_file
RootConfiguration ==
    LET template == get_env_variable(env, "TEMPLATE_PRESENTATION_ID", None)
        name == get_env_variable(env, "OUTPUT_PRESENTATION_NAME", Str(<< "Generated Pitch Deck" >>))
        file == get_env_variable(env, "OUTPUT_FILE_NAME", Str(<< "output_pitch_deck.pptx" >>))
    IN  IF template.raised THEN template
        ELSE Returned([template_id |-> template.value,
                       output_name |-> name.value,
                       output_file |-> file.value])

LoadConfiguration ==
    /\ pc = "load_configuration"
    /\ \E t \in {clock} :
        LET r == IF variant = "backend" THEN BackendConfiguration(t) ELSE RootConfiguration IN
        /\ trace' = Append(trace, "get_env_variable")
        /\ IF r.raised
           THEN /\ Raise(r.exc, IF r.exc = "ValueError" THEN "get_env_variable"
                                 ELSE "generate_pitch_deck")
                /\ UNCHANGED config
           ELSE config' = r.value /\ Goto("authenticate_google_services")
    /\ UNCHANGED << inputs, clock, peer, response, token_file, log, generated_content, market_data, services,
                    placeholders, presentation_id, chart, remote >>


\* stored credentials are refreshed whenever they carry a refresh token,
\* valid or not
Authenticate_RefreshValid ==
    /\ pc = "authenticate_google_services"
    /\ trace' = Append(trace, "authenticate_google_services")
    /\ LET creds == token_file.creds
           next == IF variant = "backend" THEN "prepare_placeholders" ELSE "load_data"
           saved == [exists |-> TRUE, creds |-> Creds(TRUE, FALSE, TRUE)]
           Save(how, ok) ==
               log' = log \o << Call("authenticate_google_services", "oauth", how, "", << >>, ok) >>
                          \o (IF ok THEN << Call("authenticate_google_services", "fs", "write",
                                                  "token.pickle", << >>, TRUE) >>
                              ELSE << >>)
       IN
       IF token_file.exists /\ creds.valid /\ ~creds.refresh_token
       THEN /\ services' = TRUE
            /\ Goto(next)
            /\ UNCHANGED << token_file, log >>
       ELSE IF token_file.exists /\ (creds.valid \/ creds.expired) /\ creds.refresh_token
       THEN \E ok \in BOOLEAN :
               /\ Save("refresh", ok)
               /\ IF ok
                  THEN /\ token_file' = [exists |-> TRUE, creds |-> Creds(TRUE, FALSE, TRUE)]
                       /\ services' = TRUE
                       /\ Goto(next)
                  ELSE /\ Raise("RefreshError", "authenticate_google_services")
                       /\ UNCHANGED << token_file, services >>
       ELSE IF ~oauth_file
       THEN /\ Raise("FileNotFoundError", "authenticate_google_services")
            /\ UNCHANGED << token_file, services, log >>
       ELSE \E ok \in BOOLEAN :
               /\ Save("run_local_server", ok)
               /\ IF ok
                  THEN /\ token_file' = saved
                       /\ services' = TRUE
                       /\ Goto(next)
                  ELSE /\ Raise("OAuthError", "authenticate_google_services")
                       /\ UNCHANGED << token_file, services >>
    /\ UNCHANGED << inputs, clock, peer, response, generated_content, market_data, config, placeholders,
                    presentation_id, chart, remote >>

\* the credentials are saved on every call, also when they were re-used
Authenticate_AlwaysSaves ==
    /\ pc = "authenticate_google_services"
    /\ trace' = Append(trace, "authenticate_google_services")
    /\ LET creds == token_file.creds
           next == IF variant = "backend" THEN "prepare_placeholders" ELSE "load_data"
           saved == [exists |-> TRUE, creds |-> Creds(TRUE, FALSE, TRUE)]
           Save(how, ok) ==
               log' = log \o << Call("authenticate_google_services", "oauth", how, "", << >>, ok) >>
                          \o (IF ok THEN << Call("authenticate_google_services", "fs", "write",
                                                  "token.pickle", << >>, TRUE) >>
                              ELSE << >>)
       IN
       IF token_file.exists /\ creds.valid
       THEN /\ services' = TRUE
            /\ Goto(next)
            /\ log' = Append(log, Call("authenticate_google_services", "fs", "write",
                                       "token.pickle", << >>, TRUE))
            /\ UNCHANGED token_file
       ELSE IF token_file.exists /\ creds.expired /\ creds.refresh_token
       THEN \E ok \in BOOLEAN :
               /\ Save("refresh", ok)
               /\ IF ok
                  THEN /\ token_file' = [exists |-> TRUE, creds |-> Creds(TRUE, FALSE, TRUE)]
                       /\ services' = TRUE
                       /\ Goto(next)
                  ELSE /\ Raise("RefreshError", "authenticate_google_services")
                       /\ UNCHANGED << token_file, services >>
       ELSE IF ~oauth_file
       THEN /\ Raise("FileNotFoundError", "authenticate_google_services")
            /\ UNCHANGED << token_file, services, log >>
       ELSE \E ok \in BOOLEAN :
               /\ Save("run_local_server", ok)
               /\ IF ok
                  THEN /\ token_file' = saved
                       /\ services' = TRUE
                       /\ Goto(next)
                  ELSE /\ Raise("OAuthError", "authenticate_google_services")
                       /\ UNCHANGED << token_file, services >>
    /\ UNCHANGED << inputs, clock, peer, response, generated_content, market_data, config, placeholders,
                    presentation_id, chart, remote >>

\* authenticate_google_services()
Authenticate ==
    /\ pc = "authenticate_google_services"
    /\ trace' = Append(trace, "authenticate_google_services")
    /\ LET creds == token_file.creds
           next == IF variant = "backend" THEN "prepare_placeholders" ELSE "load_data"
           saved == [exists |-> TRUE, creds |-> Creds(TRUE, FALSE, TRUE)]
           Save(how, ok) ==
               log' = log \o << Call("authenticate_google_services", "oauth", how, "", << >>, ok) >>
                          \o (IF ok THEN << Call("authenticate_google_services", "fs", "write",
                                                  "token.pickle", << >>, TRUE) >>
                              ELSE << >>)
       IN
       IF token_file.exists /\ creds.valid
       THEN /\ services' = TRUE
            /\ Goto(next)
            /\ UNCHANGED << token_file, log >>
       ELSE IF token_file.exists /\ creds.expired /\ creds.refresh_token
       THEN \E ok \in BOOLEAN :
               /\ Save("refresh", ok)
               /\ IF ok
                  THEN /\ token_file' = [exists |-> TRUE, creds |-> Creds(TRUE, FALSE, TRUE)]
                       /\ services' = TRUE
                       /\ Goto(next)
                  ELSE /\ Raise("RefreshError", "authenticate_google_services")
                       /\ UNCHANGED << token_file, services >>
       ELSE IF ~oauth_file
       THEN /\ Raise("FileNotFoundError", "authenticate_google_services")
            /\ UNCHANGED << token_file, services, log >>
       ELSE \E ok \in BOOLEAN :
               /\ Save("run_local_server", ok)
               /\ IF ok
                  THEN /\ token_file' = saved
                       /\ services' = TRUE
                       /\ Goto(next)
                  ELSE /\ Raise("OAuthError", "authenticate_google_services")
                       /\ UNCHANGED << token_file, services >>
    /\ UNCHANGED << inputs, clock, peer, response, generated_content, market_data, config, placeholders,
                    presentation_id, chart, remote >>

\* generate_pitch_deck: placeholders = prepare_placeholders(generated_content)
PreparePlaceholders ==
    /\ pc = "prepare_placeholders"
    /\ trace' = Append(trace, "prepare_placeholders")
    /\ placeholders' = prepare_placeholders(generated_content)
    /\ Goto("copy_template_presentation")
    /\ UNCHANGED << inputs, clock, peer, response, token_file, log, generated_content, market_data, config,
                    services, presentation_id, chart, remote >>

\* main: placeholders = load_placeholders(); market_data = load_market_data()
LoadData ==
    /\ pc = "load_data"
    /\ LET p == load_placeholders(env)
           m == load_market_data(env)
       IN  IF p.raised
           THEN /\ trace' = Append(trace, "load_placeholders")
                /\ Raise(p.exc, "get_env_variable")
                /\ UNCHANGED << placeholders, market_data >>
           ELSE IF m.raised
           THEN /\ trace' = trace \o << "load_placeholders", "load_market_data" >>
                /\ Raise(m.exc, "load_market_data")
                /\ UNCHANGED << placeholders, market_data >>
           ELSE /\ trace' = trace \o << "load_placeholders", "load_market_data" >>
                /\ placeholders' = p.value
                /\ market_data' = m.value
                /\ Goto("copy_template_presentation")
    /\ UNCHANGED << inputs, clock, peer, response, token_file, log, generated_content, config, services,
                    presentation_id, chart, remote >>

\* copy_template_presentation(drive_service, template_id, output_name)
CopyTemplate(Templates) ==
    /\ pc = "copy_template_presentation"
    /\ trace' = Append(trace, "copy_template_presentation")
    /\ \E ok \in BOOLEAN :
        /\ log' = Append(log, Call("copy_template_presentation", "drive", "files.copy",
                                   config.template_id, << config.output_name >>, ok))
        /\ IF ok
           THEN /\ \E t \in Templates :
                     drive' = [exists |-> TRUE, id |-> "deck-1", name |-> config.output_name,
                               runs |-> t.runs, slides |-> t.slides]
                /\ presentation_id' = "deck-1"
                /\ Goto("replace_text_placeholders")
           ELSE /\ Raise("HttpError", "copy_template_presentation")
                /\ UNCHANGED << drive, presentation_id >>
    /\ UNCHANGED << inputs, clock, peer, response, token_file, generated_content, market_data, config, services,
                    placeholders, chart, cells, files >>

\* replace_text_placeholders(slides_service, presentation_id, placeholders)
ReplaceTextPlaceholders ==
    /\ pc = "replace_text_placeholders"
    /\ trace' = Append(trace, "replace_text_placeholders")
    /\ LET requests == ReplaceRequests(placeholders) IN
       \E ok \in BOOLEAN :
        /\ log' = Append(log, Call("replace_text_placeholders", "slides", "batchUpdate",
                                   presentation_id, requests, ok))
        /\ IF ok
           THEN /\ drive' = [drive EXCEPT !.runs = ApplyBatch(@, requests)]
                /\ Goto("update_market_chart")
           ELSE /\ Raise("HttpError", "replace_text_placeholders")
                /\ UNCHANGED drive
    /\ UNCHANGED << inputs, clock, peer, response, token_file, generated_content, market_data, config, services,
                    placeholders, presentation_id, chart, cells, files >>


\* update_market_chart: the presentation is read and scanned for linked
\* charts; without one the function returns
ChartGetPresentation ==
    /\ pc = "update_market_chart"
    /\ trace' = Append(trace, "update_market_chart")
    /\ \E ok \in BOOLEAN :
        /\ log' = Append(log, Call("update_market_chart", "slides", "get",
                                   presentation_id, << >>, ok))
        /\ IF ok
           THEN LET found == FindLinkedCharts(drive.slides) IN
                /\ chart' = [NoChart EXCEPT !.chart_object_ids = found.chart_object_ids,
                                            !.linked_sheet_ids = found.linked_sheet_ids]
                /\ IF found.linked_sheet_ids = {}
                   THEN ChartDone
                   ELSE Goto("chart_sheet")
           ELSE /\ Raise("HttpError", "update_market_chart")
                /\ UNCHANGED chart
    /\ UNCHANGED << inputs, clock, peer, response, token_file, generated_content, market_data, config, services,
                    placeholders, presentation_id, remote >>

\* update_market_chart: sheet_id = list(linked_sheet_ids)[0] is any element
\* of the set; its metadata is read and the tab chosen
ChartGetSheet(Tabs) ==
    /\ pc = "chart_sheet"
    /\ IF chart.linked_sheet_ids = {}
       THEN /\ Raise("IndexError", "update_market_chart")
            /\ UNCHANGED << log, chart >>
       ELSE \E id \in chart.linked_sheet_ids, ok \in BOOLEAN :
            /\ log' = Append(log, Call("update_market_chart", "sheets", "get", id, << >>, ok))
            /\ IF ok
               THEN /\ \E sheets \in Tabs :
                         chart' = [chart EXCEPT !.sheet_id = id,
                                                !.sheets = sheets,
                                                !.chart_tab_name = SelectChartTab(sheets)]
                    /\ Goto("chart_write")
               ELSE /\ Raise("HttpError", "update_market_chart")
                    /\ chart' = [chart EXCEPT !.sheet_id = id]
    /\ UNCHANGED << inputs, clock, peer, response, token_file, trace, generated_content, market_data, config,
                    services, placeholders, presentation_id, remote >>

\* the values are written to every linked spreadsheet
ChartWriteValues_AllLinked ==
    /\ pc = "chart_write"
    /\ LET values == SheetValues(variant, market_data) IN
       IF values.raised
       THEN /\ Raise(values.exc, "update_market_chart")
            /\ UNCHANGED << log, cells >>
       ELSE \E ok \in BOOLEAN :
            LET block == [range |-> ChartRange(chart.chart_tab_name),
                          valueInputOption |-> "RAW", values |-> values.value] IN
            /\ log' = Append(log, Call("update_market_chart", "sheets", "values.update",
                                       chart.sheet_id, << block >>, ok))
            /\ IF ok
               THEN /\ cells' = [id \in SpreadsheetIds |->
                                  IF id \in chart.linked_sheet_ids
                                  THEN Append(cells[id], block) ELSE cells[id]]
                    /\ Goto("chart_refresh")
               ELSE /\ Raise("HttpError", "update_market_chart")
                    /\ UNCHANGED cells
    /\ UNCHANGED << inputs, clock, peer, response, token_file, trace, generated_content, market_data, config,
                    services, placeholders, presentation_id, chart, drive, files >>

\* update_market_chart: sheet_values is built and written to A1:B4
ChartWriteValues ==
    /\ pc = "chart_write"
    /\ LET values == SheetValues(variant, market_data) IN
       IF values.raised
       THEN /\ Raise(values.exc, "update_market_chart")
            /\ UNCHANGED << log, cells >>
       ELSE \E ok \in BOOLEAN :
            LET block == [range |-> ChartRange(chart.chart_tab_name),
                          valueInputOption |-> "RAW", values |-> values.value] IN
            /\ log' = Append(log, Call("update_market_chart", "sheets", "values.update",
                                       chart.sheet_id, << block >>, ok))
            /\ IF ok
               THEN /\ cells' = [cells EXCEPT ![chart.sheet_id] = Append(@, block)]
                    /\ Goto("chart_refresh")
               ELSE /\ Raise("HttpError", "update_market_chart")
                    /\ UNCHANGED cells
    /\ UNCHANGED << inputs, clock, peer, response, token_file, trace, generated_content, market_data, config,
                    services, placeholders, presentation_id, chart, drive, files >>

\* a failed refresh clears the values written before it
ChartRefresh_Compensating ==
    /\ pc = "chart_refresh"
    /\ IF chart.chart_object_ids = << >>
       THEN ChartDone /\ UNCHANGED << log, cells >>
       ELSE \E ok \in BOOLEAN :
            /\ log' = Append(log, Call("update_market_chart", "slides", "batchUpdate",
                                       presentation_id,
                                       RefreshRequests(chart.chart_object_ids), ok))
            /\ IF ok THEN Goto("chart_sleep") /\ UNCHANGED cells
               ELSE /\ Raise("HttpError", "update_market_chart")
                    /\ cells' = [cells EXCEPT ![chart.sheet_id] = << >>]
    /\ UNCHANGED << inputs, clock, peer, response, token_file, trace, generated_content, market_data, config,
                    services, placeholders, presentation_id, chart, drive, files >>

\* update_market_chart: if chart_object_ids, one batch of refresh requests
ChartRefresh ==
    /\ pc = "chart_refresh"
    /\ IF chart.chart_object_ids = << >>
       THEN ChartDone /\ UNCHANGED log
       ELSE \E ok \in BOOLEAN :
            /\ log' = Append(log, Call("update_market_chart", "slides", "batchUpdate",
                                       presentation_id,
                                       RefreshRequests(chart.chart_object_ids), ok))
            /\ IF ok THEN Goto("chart_sleep")
               ELSE Raise("HttpError", "update_market_chart")
    /\ UNCHANGED << inputs, clock, peer, response, token_file, trace, generated_content, market_data, config,
                    services, placeholders, presentation_id, chart, remote >>

\* the delay is left out
ChartSleep_Skipped ==
    /\ pc = "chart_sleep"
    /\ ChartDone
    /\ UNCHANGED << inputs, clock, peer, response, token_file, trace, log, generated_content, market_data, config,
                    services, placeholders, presentation_id, chart, remote >>

\* update_market_chart: time.sleep(2)
ChartSleep ==
    /\ pc = "chart_sleep"
    /\ log' = Append(log, Call("update_market_chart", "time", "sleep", "", << 2 >>, TRUE))
    /\ ChartDone
    /\ UNCHANGED << inputs, clock, peer, response, token_file, trace, generated_content, market_data, config,
                    services, placeholders, presentation_id, chart, remote >>

\* export_presentation(drive_service, presentation_id, output_file): the
\* file is opened for writing before the export request is executed
ExportPresentation ==
    /\ pc = "export_presentation"
    /\ trace' = Append(trace, "export_presentation")
    /\ \E ok \in BOOLEAN :
        /\ log' = Append(log, Call("export_presentation", "drive", "files.export_media",
                                   presentation_id, << >>, ok))
        /\ files' = {f \in files : f.path # config.output_file}
                      \cup { IF ok
                             THEN [path |-> config.output_file, bytes |-> "pptx",
                                   runs |-> drive.runs]
                             ELSE [path |-> config.output_file, bytes |-> "",
                                   runs |-> {}] }
        /\ IF ok THEN Goto("return")
           ELSE Raise("HttpError", "export_presentation")
    /\ UNCHANGED << inputs, clock, peer, response, token_file, generated_content, market_data, config, services,
                    placeholders, presentation_id, chart, drive, cells >>

\* generate_pitch_deck returns output_file; main prints the closing banner
Finish ==
    /\ pc = "return"
    /\ Return
    /\ UNCHANGED << inputs, clock, peer, response, token_file, trace, log, generated_content, market_data, config,
                    services, placeholders, presentation_id, chart, remote >>

-----------------------------------------------------------------------------
(* src/backend/app.py: POST /generate *)

\* PitchRequest: a body without idea is answered 422 by the framework and
\* generate_deck is not entered; otherwise generate_deck builds the context
\* and calls generate_pitch_deck
ReceiveRequest ==
    /\ pc = "generate_deck"
    /\ \E valid \in BOOLEAN :
        IF valid
        THEN /\ trace' = Append(trace, "generate_deck")
             /\ pc' = "generate_pitch_metadata"
             /\ UNCHANGED response
        ELSE /\ response' = [status |-> 422, kind |-> "validation", detail |-> << "idea" >>]
             /\ pc' = "done"
             /\ UNCHANGED trace
    /\ UNCHANGED << inputs, clock, peer, token_file, outcome, log, generated_content, market_data,
                    config, services, placeholders, presentation_id, chart, remote >>

FileResponse(path) == [status |-> 200, kind |-> "file", detail |-> path, body |-> NoBody]
HTTPException(status_code, detail) ==
    [status |-> status_code, kind |-> "detail", detail |-> detail, body |-> NoBody]
\* the file at a path of the working directory
FileAt(fs, path) == CHOOSE f \in fs : f.path = path
\* a FileResponse is sent by reading the file at its path at that moment
Sent(r, fs) == [r EXCEPT !.body = FileAt(fs, r.detail)]

\* the status tells the cause: 400 for a missing setting
Respond_ByCause ==
    /\ pc = "respond"
    /\ IF outcome.status = "raised"
       THEN /\ response' = HTTPException(IF outcome.exc = "ValueError" THEN 400 ELSE 500,
                                         << outcome.exc >>)
            /\ UNCHANGED files
       ELSE \E removed \in BOOLEAN :
            /\ files' = IF removed THEN {f \in files : f.path # config.output_file} ELSE files
            /\ response' =
                 IF \E f \in files' : f.path = config.output_file
                 THEN Sent(FileResponse(config.output_file), files')
                 ELSE HTTPException(500, << "500: Failed to generate pitch deck file" >>)
    /\ pc' = "done"
    /\ UNCHANGED << inputs, clock, peer, token_file, outcome, trace, log, generated_content, market_data,
                    config, services, placeholders, presentation_id, chart, drive, cells >>

\* generate_deck after generate_pitch_deck: an exception, the HTTPException
\* of the existence check included, is answered with status 500 and str(e);
\* a returned path that exists is answered with the file. The file can have
\* been removed from the working directory since the export.
Respond ==
    /\ pc = "respond"
    /\ IF outcome.status = "raised"
       THEN /\ response' = HTTPException(500, << outcome.exc >>)
            /\ UNCHANGED files
       ELSE \E removed \in BOOLEAN :
            /\ files' = IF removed THEN {f \in files : f.path # config.output_file} ELSE files
            /\ response' =
                 IF \E f \in files' : f.path = config.output_file
                 THEN Sent(FileResponse(config.output_file), files')
                 ELSE HTTPException(500, << "500: Failed to generate pitch deck file" >>)
    /\ pc' = "done"
    /\ UNCHANGED << inputs, clock, peer, token_file, outcome, trace, log, generated_content, market_data,
                    config, services, placeholders, presentation_id, chart, drive, cells >>

-----------------------------------------------------------------------------
(* A second request to POST /generate, served by another worker in the same *)
(* working directory: the steps of its run that touch the directory         *)

\* the text of the deck of the second request
PeerRuns == { << "Another deck" >> }

\* a second passes
Tick ==
    /\ \E s \in Seconds : clock < s + MaxTicks
    /\ clock' = clock + 1
    /\ UNCHANGED << inputs, token_file, pc, outcome, trace, log, generated_content,
                    market_data, config, services, placeholders, presentation_id, chart,
                    remote, response, peer >>

\* the second request arrives
PeerArrives ==
    /\ peer.pc = "absent"
    /\ peer' = [peer EXCEPT !.pc = "path"]
    /\ UNCHANGED << inputs, token_file, pc, outcome, trace, log, generated_content,
                    market_data, config, services, placeholders, presentation_id, chart,
                    remote, response, clock >>

\* its generate_pitch_deck computes output_file
PeerComputePath ==
    /\ peer.pc = "path"
    /\ peer' = [peer EXCEPT !.pc = "export", !.path = OutputFile(clock)]
    /\ UNCHANGED << inputs, token_file, pc, outcome, trace, log, generated_content,
                    market_data, config, services, placeholders, presentation_id, chart,
                    remote, response, clock >>

\* its export_presentation: the file is opened for writing, then the export
\* is executed; a failed export is answered 500
PeerExport ==
    /\ peer.pc = "export"
    /\ \E ok \in BOOLEAN :
        /\ files' = {f \in files : f.path # peer.path}
                      \cup { IF ok
                             THEN [path |-> peer.path, bytes |-> "pptx", runs |-> PeerRuns]
                             ELSE [path |-> peer.path, bytes |-> "", runs |-> {}] }
        /\ peer' = IF ok THEN [peer EXCEPT !.pc = "respond"]
                   ELSE [peer EXCEPT !.pc = "done", !.status = 500]
    /\ UNCHANGED << inputs, token_file, pc, outcome, trace, log, generated_content,
                    market_data, config, services, placeholders, presentation_id, chart,
                    drive, cells, response, clock >>

\* its generate_deck: the existence check and the response
PeerRespond ==
    /\ peer.pc = "respond"
    /\ peer' = IF \E f \in files : f.path = peer.path
               THEN [peer EXCEPT !.pc = "done", !.status = 200,
                                 !.body = FileAt(files, peer.path)]
               ELSE [peer EXCEPT !.pc = "done", !.status = 500]
    /\ UNCHANGED << inputs, token_file, pc, outcome, trace, log, generated_content,
                    market_data, config, services, placeholders, presentation_id, chart,
                    remote, response, clock >>

-----------------------------------------------------------------------------
(* Specifications *)

\* Every entry point, environment and stored credential, every reply of the
\* generation service; templates of one slide at most.
Init == InitWith({"pipeline", "generate_pitch_metadata", "generate_market_data"},
                 FALSE, TokenFiles, BOOLEAN)

Next ==
    \/ StepGenerateMetadata(MetadataReplies)
    \/ StepGenerateMarketData(MarketReplies)
    \/ LoadConfiguration
    \/ Authenticate
    \/ PreparePlaceholders
    \/ LoadData
    \/ CopyTemplate(TextTemplates)
    \/ ReplaceTextPlaceholders
    \/ ChartGetPresentation
    \/ ChartGetSheet(TextTabs)
    \/ ChartWriteValues
    \/ ChartRefresh
    \/ ChartSleep
    \/ ExportPresentation
    \/ Finish

Spec == Init /\ [][Next]_vars

\* The pipeline with a complete environment and valid stored credentials,
\* over every template of at most MaxSlides slides and every linked
\* spreadsheet of at most MaxSheets tabs.
ChartMetadataReplies == { ServiceError, Reply(Bare(Lexeme("object", FullMembers))) }

InitChart == InitWith({"pipeline"}, TRUE, {ValidToken}, {TRUE})

NextChart ==
    \/ StepGenerateMetadata(ChartMetadataReplies)
    \/ StepGenerateMarketData(MarketReplies)
    \/ LoadConfiguration
    \/ Authenticate
    \/ PreparePlaceholders
    \/ LoadData
    \/ CopyTemplate(ChartTemplates)
    \/ ReplaceTextPlaceholders
    \/ ChartGetPresentation
    \/ ChartGetSheet(ChartTabs)
    \/ ChartWriteValues
    \/ ChartRefresh
    \/ ChartSleep
    \/ ExportPresentation
    \/ Finish

SpecChart == InitChart /\ [][NextChart]_vars

\* POST /generate of the backend, over every environment and stored
\* credential.
InitHttp == InitWith({"generate_deck"}, FALSE, TokenFiles, BOOLEAN)

NextHttp ==
    \/ ReceiveRequest
    \/ StepGenerateMetadata(MetadataReplies)
    \/ StepGenerateMarketData(MarketReplies)
    \/ LoadConfiguration
    \/ Authenticate
    \/ PreparePlaceholders
    \/ CopyTemplate(TextTemplates)
    \/ ReplaceTextPlaceholders
    \/ ChartGetPresentation
    \/ ChartGetSheet(TextTabs)
    \/ ChartWriteValues
    \/ ChartRefresh
    \/ ChartSleep
    \/ ExportPresentation
    \/ Finish
    \/ Respond

SpecHttp == InitHttp /\ [][NextHttp]_vars

\* Two requests to POST /generate in one working directory, with a complete
\* environment and valid stored credentials, over a template without slides.
TwoMetadataReplies == { Reply(Bare(Lexeme("object", FullMembers))) }
TwoMarketReplies == { ServiceError }
TwoTemplates == { Template(RunsPartial, << >>) }

InitTwo == InitWith({"generate_deck"}, TRUE, {ValidToken}, {TRUE})

NextTwo ==
    \/ ReceiveRequest
    \/ StepGenerateMetadata(TwoMetadataReplies)
    \/ StepGenerateMarketData(TwoMarketReplies)
    \/ LoadConfiguration
    \/ Authenticate
    \/ PreparePlaceholders
    \/ CopyTemplate(TwoTemplates)
    \/ ReplaceTextPlaceholders
    \/ ChartGetPresentation
    \/ ExportPresentation
    \/ Finish
    \/ Respond
    \/ Tick
    \/ PeerArrives
    \/ PeerComputePath
    \/ PeerExport
    \/ PeerRespond

SpecTwo == InitTwo /\ [][NextTwo]_vars

\* the mappings update_market_chart can be handed: what the market prompt
\* is answered with, and the mapping without any key
MarketMappings == {Dict(o) : o \in MarketObjects \cup { << >> }}

\* update_market_chart of either variant called on a presentation that was
\* copied and substituted, with any market data.
InitUpdate ==
    /\ variant \in {"backend", "root"}
    /\ entry = "update_market_chart"
    /\ env = IF variant = "backend" THEN BackendEnv ELSE RootEnv
    /\ token_file = ValidToken
    /\ oauth_file = TRUE
    /\ pc = "update_market_chart"
    /\ outcome = Running
    /\ trace = << >>
    /\ log = << >>
    /\ generated_content = EmptyDict
    /\ market_data \in MarketMappings \cup { List }
    /\ config = NoConfig
    /\ services = TRUE
    /\ placeholders = EmptyDict
    /\ presentation_id = "deck-1"
    /\ chart = NoChart
    /\ \E t \in ChartTemplates :
          drive = [exists |-> TRUE, id |-> "deck-1", name |-> << "Pitch Deck" >>,
                   runs |-> { << "Confidential" >> }, slides |-> t.slides]
    /\ cells = [id \in SpreadsheetIds |-> << >>]
    /\ files = {}
    /\ response = NoResponse
    /\ clock \in Seconds
    /\ peer = NoPeer

NextUpdate ==
    \/ ChartGetPresentation
    \/ ChartGetSheet(TextTabs)
    \/ ChartWriteValues
    \/ ChartRefresh
    \/ ChartSleep

SpecUpdate == InitUpdate /\ [][NextUpdate]_vars


-----------------------------------------------------------------------------
(* Properties *)

\* the positions of log holding a call of function site to operation op
Calls(site, op) == {i \in DOMAIN log : log[i].site = site /\ log[i].op = op}
Issued(site, op) == Calls(site, op) # {}
Invoked(step) == \E i \in DOMAIN trace : trace[i] = step
IsPrefix(s, t) == Len(s) <= Len(t) /\ \A i \in DOMAIN s : s[i] = t[i]
Pipeline == entry = "pipeline"

\* the remote mutations of documents: the template copy, the text-replace
\* batch, the spreadsheet value update, the chart-refresh batch
MutationIssued ==
    \/ Issued("copy_template_presentation", "files.copy")
    \/ Issued("replace_text_placeholders", "batchUpdate")
    \/ Issued("update_market_chart", "values.update")
    \/ Issued("update_market_chart", "batchUpdate")

PipelineSteps ==
    IF variant = "backend"
    THEN << "generate_pitch_metadata", "generate_market_data", "copy_template_presentation",
            "replace_text_placeholders", "update_market_chart", "export_presentation" >>
    ELSE << "copy_template_presentation", "replace_text_placeholders",
            "update_market_chart", "export_presentation" >>
IsPipelineStep(step) == step \in Range(PipelineSteps)

\* C1: the steps of a run are invoked in the order metadata generation,
\* market-data generation, template copy, placeholder substitution, chart
\* update, export (the root variant: from the template copy on); none is
\* invoked twice or after a later one, and no remote call is issued twice.
C1_StepsInOrderOnce ==
    Pipeline =>
        /\ IsPrefix(SelectSeq(trace, IsPipelineStep), PipelineSteps)
        /\ \A i, j \in DOMAIN log :
              (log[i].site = log[j].site /\ log[i].svc = log[j].svc /\ log[i].op = log[j].op)
                  => i = j

\* a backend run that went through all six steps, and failed at the last
C1_Witness ==
    /\ Pipeline /\ variant = "backend"
    /\ SelectSeq(trace, IsPipelineStep) = PipelineSteps
    /\ outcome.status = "raised" /\ outcome.at = "export_presentation"

PlaceholderVariables == Range(PLACEHOLDER_VARIABLES)
NumericVariables == {"TAM_NUMERIC", "SAM_NUMERIC", "SOM_NUMERIC"}
\* a required configuration value is missing
MissingConfiguration ==
    \/ "TEMPLATE_PRESENTATION_ID" \notin DOMAIN env
    \/ variant = "backend" /\ "GEMINI_API_KEY" \notin DOMAIN env
    \/ variant = "root" /\ (PlaceholderVariables \cup NumericVariables) \ DOMAIN env # {}

\* C2: with a required configuration value missing the run fails, and no
\* template copy, text-replace batch, spreadsheet value update or
\* chart-refresh batch is ever issued.
C2_MissingConfigFailsBeforeMutation ==
    (Pipeline /\ MissingConfiguration) =>
        /\ ~MutationIssued
        /\ ~drive.exists
        /\ pc = "done" => outcome.status = "raised"

\* the root variant, authenticated, fails on a placeholder variable that is
\* not set
C2_Witness ==
    /\ Pipeline /\ variant = "root" /\ MissingConfiguration
    /\ services
    /\ outcome.status = "raised" /\ outcome.exc = "ValueError"
    /\ ~MutationIssued


\* no page element of the copied presentation is a linked chart
NoLinkedChart ==
    \A s \in DOMAIN drive.slides : \A j \in DOMAIN drive.slides[s] :
        drive.slides[s][j].sheetsChart = ""
PresentationRead ==
    \E i \in Calls("update_market_chart", "get") : log[i].svc = "slides" /\ log[i].ok

\* C3: when the presentation read by update_market_chart holds no linked
\* chart, the function does not raise, reads no spreadsheet metadata, writes
\* no spreadsheet values and issues no refresh batch, and the run goes on to
\* the export.
C3_NoChartSkips ==
    (Pipeline /\ PresentationRead /\ NoLinkedChart) =>
        /\ outcome.at # "update_market_chart"
        /\ \A i \in DOMAIN log :
              log[i].site = "update_market_chart" => (log[i].svc = "slides" /\ log[i].op = "get")
        /\ \A id \in SpreadsheetIds : cells[id] = << >>
        /\ pc \in {"export_presentation", "return", "done"}
        /\ pc \in {"return", "done"} => Invoked("export_presentation")

\* a presentation of two slides with shapes only, exported
C3_Witness ==
    /\ Pipeline /\ PresentationRead /\ NoLinkedChart
    /\ Len(drive.slides) = 2
    /\ outcome.status = "returned"
    /\ Issued("export_presentation", "files.export_media")

\* C4: every spreadsheet write of update_market_chart carries exactly 4 rows
\* of exactly 2 columns: the header Metric, Value, then TAM, SAM, SOM, to the
\* range A1:B4 of the selected tab.
C4_WriteIsFourByTwo ==
    \A i \in Calls("update_market_chart", "values.update") :
        LET block == log[i].body[1]
            rows == block.values
        IN  /\ Len(log[i].body) = 1
            /\ Len(rows) = 4
            /\ \A r \in DOMAIN rows : Len(rows[r]) = 2
            /\ rows[1][1] = "Metric" /\ rows[1][2] = "Value"
            /\ rows[2][1] = "TAM" /\ rows[3][1] = "SAM" /\ rows[4][1] = "SOM"
            /\ block.range.a1 = "A1:B4"
            /\ block.range.tab = chart.chart_tab_name
            /\ log[i].id = chart.sheet_id

\* what was written last to the spreadsheet the run selected
Written == cells[chart.sheet_id][Len(cells[chart.sheet_id])].values

\* a write whose TAM value has ten digits
C4_Witness ==
    /\ chart.sheet_id # "" /\ cells[chart.sheet_id] # << >>
    /\ Written[2][2].kind = "num"
    /\ Written[2][2].n >= 1000000000

\* C5: the placeholder map handed to the substitution step has exactly the
\* schema's field names, each wrapped in double braces, as its keys.
C5_PlaceholderKeysAreSchema ==
    (Pipeline /\ Invoked("replace_text_placeholders")) =>
        Keys(placeholders) = {Wrap(k) : k \in SchemaFields}

\* C6: once the substitution step has completed, no token of the schema is
\* left in the document.
C6_NoTokenRemains ==
    (Pipeline /\ \E i \in Calls("replace_text_placeholders", "batchUpdate") : log[i].ok) =>
        \A k \in SchemaFields : Wrap(k) \notin drive.runs

\* C7: replace_text_placeholders issues exactly one batchUpdate on the given
\* presentation, holding one replaceAllText instruction per entry of the
\* placeholder map, in the map's order, each with matchCase true, the
\* entry's key as the text searched and its value as the replacement.
C7_OneBatchOneRequestPerEntry ==
    (Pipeline /\ Invoked("replace_text_placeholders")) =>
        /\ Cardinality({i \in DOMAIN log : log[i].site = "replace_text_placeholders"}) = 1
        /\ \A i \in DOMAIN log : log[i].site = "replace_text_placeholders" =>
            /\ log[i].svc = "slides" /\ log[i].op = "batchUpdate"
            /\ log[i].id = presentation_id
            /\ Len(log[i].body) = Len(placeholders.items)
            /\ \A n \in DOMAIN log[i].body :
                LET request == log[i].body[n] IN
                /\ DOMAIN request = {"replaceAllText"}
                /\ request.replaceAllText.containsText.matchCase = TRUE
                /\ request.replaceAllText.containsText.text = placeholders.items[n].k
                /\ request.replaceAllText.replaceText = placeholders.items[n].v

\* a batch of 40 instructions, for a reply with a key outside the schema
C7_Witness ==
    /\ Pipeline
    /\ \E i \in Calls("replace_text_placeholders", "batchUpdate") :
          log[i].ok /\ Len(log[i].body) = Len(PITCH_DECK_SCHEMA) + 1


\* the title begins with the six characters of the marker
BeginsWithMarker(title) ==
    /\ Len(title) >= 6
    /\ title[1] = "[" /\ title[2] = "C" /\ title[3] = "h"
    /\ title[4] = "a" /\ title[5] = "r" /\ title[6] = "t"
TabSelected == chart.sheets # << >>

\* C8: the write targets the first sheet, in the spreadsheet's sheet order,
\* whose title begins with the marker; when no title does, the first sheet.
C8_TabSelection ==
    TabSelected =>
        /\ \A i \in DOMAIN chart.sheets :
              (/\ BeginsWithMarker(chart.sheets[i])
               /\ \A j \in 1..(i - 1) : ~BeginsWithMarker(chart.sheets[j]))
                  => chart.chart_tab_name = chart.sheets[i]
        /\ (\A i \in DOMAIN chart.sheets : ~BeginsWithMarker(chart.sheets[i]))
              => chart.chart_tab_name = chart.sheets[1]
        /\ \A i \in Calls("update_market_chart", "values.update") :
              log[i].body[1].range.tab = chart.chart_tab_name

\* two marked tabs: the values went to the first of them
C8_Witness ==
    /\ TabSelected
    /\ Len(chart.sheets) >= 2
    /\ chart.sheets[1] = Title_Chart2
    /\ chart.sheets[2] = Title_Chart
    /\ chart.chart_tab_name = Title_Chart2
    /\ \E i \in Calls("update_market_chart", "values.update") : log[i].ok

IsWrite(e) == e.site = "update_market_chart" /\ e.op = "values.update"
IsRefresh(e) == e.site = "update_market_chart" /\ e.op = "batchUpdate"
IsSleep(e) == e.site = "update_market_chart" /\ e.op = "sleep"
IsExport(e) == e.site = "export_presentation" /\ e.op = "files.export_media"

\* C9: a refresh batch is issued only after the spreadsheet write of the run
\* has completed; a refresh that succeeded is followed by the delay before
\* anything else; and with a linked chart in the presentation the export is
\* issued only after that delay.
C9_WriteRefreshDelayExport ==
    /\ \A i \in DOMAIN log : IsRefresh(log[i]) =>
          \E j \in 1..(i - 1) : IsWrite(log[j]) /\ log[j].ok
    /\ \A i \in DOMAIN log : (IsRefresh(log[i]) /\ log[i].ok) =>
          IF i = Len(log) THEN pc = "chart_sleep" ELSE IsSleep(log[i + 1])
    /\ \A i \in DOMAIN log : IsSleep(log[i]) =>
          i > 1 /\ IsRefresh(log[i - 1]) /\ log[i - 1].ok /\ log[i].body = << 2 >>
    /\ \A i \in DOMAIN log : (IsExport(log[i]) /\ ~NoLinkedChart) =>
          \E j \in 1..(i - 1) : IsSleep(log[j])

\* write, refresh, delay and export, in this order
C9_Witness ==
    /\ ~NoLinkedChart
    /\ \E i, j, k, l \in DOMAIN log :
          /\ i < j /\ j < k /\ k < l
          /\ IsWrite(log[i]) /\ IsRefresh(log[j]) /\ IsSleep(log[k]) /\ IsExport(log[l])
    /\ outcome.status = "returned"

\* the fallback triple of the variant, in tenths: 150, 25, 0.5 and 10, 5, 1
FallbackTriple ==
    IF variant = "backend"
    THEN << Entry("TAM", Num(1500)), Entry("SAM", Num(250)), Entry("SOM", Num(5)) >>
    ELSE << Entry("TAM", Num(100)), Entry("SAM", Num(50)), Entry("SOM", Num(10)) >>
\* the reply, its fences taken off, is one JSON value
ValidJson(text) == ~json_loads(strip_fences(text)).raised
FellBack == market_data.type = "dict" /\ market_data.items = FallbackTriple

\* C10: generate_market_data never raises; without an API key it returns the
\* variant's fallback triple without calling the service, and it returns the
\* fallback triple when the call errors or the reply is not valid JSON; the
\* pipeline goes on to its next step.
C10_MarketDataFallsBack ==
    /\ outcome.at # "generate_market_data"
    /\ (Invoked("generate_market_data") /\ Falsy(os_getenv(env, "GEMINI_API_KEY", None))) =>
          FellBack /\ ~Issued("generate_market_data", "generate_content")
    /\ \A i \in Calls("generate_market_data", "generate_content") :
          (log[i].body[1].error \/ ~ValidJson(log[i].body[1].text)) => FellBack
    /\ (Pipeline /\ trace # << >> /\ trace[Len(trace)] = "generate_market_data") =>
          pc = "load_configuration"
    /\ (~Pipeline /\ Invoked("generate_market_data")) => outcome.status = "returned"

\* generate_market_data of the root variant, called without an API key
C10_Witness ==
    /\ entry = "generate_market_data" /\ variant = "root"
    /\ "GEMINI_API_KEY" \notin DOMAIN env
    /\ outcome.status = "returned"
    /\ FellBack

\* the backend pipeline goes on after a reply that is not JSON
C10_WitnessPipeline ==
    /\ Pipeline /\ variant = "backend"
    /\ \E i \in Calls("generate_market_data", "generate_content") :
          ~log[i].body[1].error /\ ~ValidJson(log[i].body[1].text)
    /\ FellBack
    /\ outcome.status = "returned"


MetadataCalls == Calls("generate_pitch_metadata", "generate_content")
\* the members of the one JSON object of a reply, as they were written
MembersOf(text) == strip_fences(text)[1].val

IsDocumentCall(e) == e.svc \in {"drive", "slides", "sheets"}

\* C12: a failed call to the document or spreadsheet service (copy,
\* text-replace batch, get, spreadsheet get, value update, refresh batch,
\* export) ends the run with that error: it is the last call of the run, no
\* later step is invoked, no export is requested after a failed copy,
\* substitution or chart update, and the run does not return.
C12_ServiceErrorPropagates ==
    \A i \in DOMAIN log : (IsDocumentCall(log[i]) /\ ~log[i].ok) =>
        /\ i = Len(log)
        /\ outcome.status = "raised" /\ outcome.exc = "HttpError"
        /\ outcome.at = log[i].site
        /\ pc \notin {"return", "export_presentation"}
        /\ trace[Len(trace)] = log[i].site
        /\ log[i].site # "export_presentation" =>
              /\ ~Invoked("export_presentation")
              /\ ~Issued("export_presentation", "files.export_media")
              /\ files = {}

\* the value update failed after the copy and the substitution succeeded
C12_Witness ==
    /\ \E i \in Calls("update_market_chart", "values.update") : ~log[i].ok
    /\ \E i \in Calls("copy_template_presentation", "files.copy") : log[i].ok
    /\ \E i \in Calls("replace_text_placeholders", "batchUpdate") : log[i].ok
    /\ outcome.status = "raised"
    /\ ~Invoked("export_presentation")

CopySucceeded == \E i \in Calls("copy_template_presentation", "files.copy") : log[i].ok
Failed == outcome.status = "raised"

\* C13: no step undoes a committed mutation. Once copied, the presentation
\* stays in existence with its slides, and a step that fails leaves it as it
\* was; the blocks written to a spreadsheet stay, and a step that fails
\* leaves every spreadsheet as it was; no call is ever taken back and none
\* deletes or clears anything.
C13_NoCompensation ==
    [][ /\ drive.exists =>
              /\ drive'.exists /\ drive'.id = drive.id /\ drive'.slides = drive.slides
              /\ Failed' => drive' = drive
        /\ \A id \in SpreadsheetIds :
              /\ IsPrefix(cells[id], cells'[id])
              /\ Failed' => cells'[id] = cells[id]
        /\ IsPrefix(log, log')
        /\ \A i \in DOMAIN log' :
              log'[i].op \notin {"files.delete", "values.clear", "batchClear"}
      ]_vars

\* the refresh failed: the copy is there and the values are in the sheet
C13_Witness ==
    /\ CopySucceeded /\ Failed
    /\ \E i \in Calls("update_market_chart", "batchUpdate") : ~log[i].ok
    /\ drive.exists
    /\ chart.sheet_id # "" /\ Len(cells[chart.sheet_id]) = 1


\* the file generate_pitch_deck named is on disk
OutputExists == \E f \in files : f.path = config.output_file
Handled == entry = "generate_deck" /\ Invoked("generate_deck")
Answered == pc = "done" /\ response.status # 0

\* C14: POST /generate answers with the file only when generate_pitch_deck
\* returned and the path it returned exists; when the pipeline raised, or the
\* returned path does not exist, the answer is status 500 with one message
\* string; a request that reached generate_deck gets no other status.
C14_FileOr500 ==
    Handled =>
        /\ response.status \in {0, 200, 500}
        /\ pc = "done" => response.status # 0
        /\ response.status = 200 =>
              /\ outcome.status = "returned"
              /\ OutputExists
              /\ response.kind = "file" /\ response.detail = config.output_file
        /\ (Answered /\ outcome.status = "raised") =>
              response = HTTPException(500, << outcome.exc >>)
        /\ (Answered /\ ~OutputExists) => response.status = 500
        /\ response.status = 500 => response.kind = "detail" /\ Len(response.detail) = 1

\* a missing template id answered with 500, as a failed export would be
C14_Witness ==
    /\ Handled /\ Answered
    /\ outcome.status = "raised" /\ outcome.exc = "ValueError"
    /\ response.status = 500

\* the file was gone when generate_deck looked for it
C14_WitnessRemoved ==
    /\ Handled /\ Answered
    /\ outcome.status = "returned" /\ ~OutputExists
    /\ response.status = 500


\* the operations of the authorization service issued by this step
OAuthStarted ==
    {log'[i].op : i \in {j \in DOMAIN log' : j > Len(log) /\ log'[j].svc = "oauth"}}
StoredValid == token_file.exists /\ token_file.creds.valid
\* the stored credentials are expired and carry a refresh token
StoredRefreshable ==
    token_file.exists /\ token_file.creds.expired /\ token_file.creds.refresh_token

\* C15: authenticate_google_services re-uses stored credentials that are
\* valid, starting neither a refresh nor the consent flow and leaving the
\* token file as it is; stored credentials that are not valid, are expired
\* and carry a refresh token are refreshed and the consent flow is not
\* started; the consent flow is started only when there are no stored
\* credentials or they are neither valid nor refreshable.
C15_ReuseRefreshConsent ==
    [][ pc = "authenticate_google_services" =>
          /\ StoredValid =>
                /\ OAuthStarted = {}
                /\ token_file' = token_file
                /\ services'
          /\ (~StoredValid /\ StoredRefreshable) => OAuthStarted = {"refresh"}
          /\ "run_local_server" \in OAuthStarted =>
                /\ ~StoredValid /\ ~StoredRefreshable
                /\ oauth_file
          /\ "refresh" \in OAuthStarted => (~StoredValid /\ StoredRefreshable)
          /\ (~StoredValid /\ ~StoredRefreshable /\ oauth_file) =>
                OAuthStarted = {"run_local_server"}
          /\ (~StoredValid /\ ~StoredRefreshable /\ ~oauth_file) =>
                /\ OAuthStarted = {}
                /\ outcome'.exc = "FileNotFoundError"
      ]_vars

OAuthOps == {log[i].op : i \in {j \in DOMAIN log : log[j].svc = "oauth"}}

\* expired credentials were refreshed and the run went on, without consent
C15_Witness ==
    /\ OAuthOps = {"refresh"}
    /\ services
    /\ token_file.creds.valid
    /\ Issued("copy_template_presentation", "files.copy")

\* valid credentials were re-used: no call to the authorization service
C15_WitnessReuse ==
    /\ OAuthOps = {}
    /\ services
    /\ Issued("copy_template_presentation", "files.copy")


WriteIssued == Issued("update_market_chart", "values.update")
Positive(value) == value.kind = "num" /\ value.n > 0
\* three positive numbers, SOM <= SAM <= TAM
Ordered(tam, sam, som) ==
    /\ Positive(tam) /\ Positive(sam) /\ Positive(som)
    /\ som.n <= sam.n /\ sam.n <= tam.n

\* C16: in a run that reached the chart write, the market data holds three
\* positive numbers with SOM <= SAM <= TAM, and the three values written to
\* the spreadsheet are positive numbers in that order.
C16_MarketDataOrdered ==
    WriteIssued =>
        /\ market_data.type = "dict"
        /\ Keys(market_data) = {"TAM", "SAM", "SOM"}
        /\ Ordered(DictItem(market_data, "TAM").value, DictItem(market_data, "SAM").value,
                   DictItem(market_data, "SOM").value)
        /\ \A i \in Calls("update_market_chart", "values.update") :
              LET rows == log[i].body[1].values IN
              Ordered(rows[2][2], rows[3][2], rows[4][2])


\* a call that leaves the machine: generation, authorization, drive, slides
\* or sheets
IsRemoteCall(e) == e.svc \in {"genai", "oauth", "drive", "slides", "sheets"}
RemoteCallIssued == \E i \in DOMAIN log : IsRemoteCall(log[i])
\* the run has failed on a required setting that is not there
FailedOnMissingSetting ==
    /\ Pipeline /\ MissingConfiguration
    /\ outcome.status = "raised" /\ outcome.exc = "ValueError"

\* C17: when the run fails for a missing required setting, no remote call of
\* any kind (text generation, market-size generation, credential refresh or
\* consent, copy, update, export) has been issued in it, and the run is over.
C17_MissingConfigBeforeAnyRemoteCall ==
    FailedOnMissingSetting => (~RemoteCallIssued /\ pc = "done")


\* the row of sheet_values that holds a metric
RowOf(key) == IF key = "TAM" THEN 2 ELSE IF key = "SAM" THEN 3 ELSE 4
\* the defaults of the backend, in tenths: 150, 25 and 0.5
DefaultOf(key) == IF key = "TAM" THEN Num(1500) ELSE IF key = "SAM" THEN Num(250) ELSE Num(5)
Metrics == {"TAM", "SAM", "SOM"}
ValueWrites == Calls("update_market_chart", "values.update")
\* update_market_chart has chosen the tab and is past building sheet_values
PastSheetValues == TabSelected /\ pc # "chart_write"
KeyAbsent == market_data.type = "dict" /\ Metrics \ Keys(market_data) # {}

\* C18: the backend update_market_chart writes each of TAM, SAM and SOM
\* multiplied by 1000, with 150, 25 and 0.5 taken for a key that is absent,
\* and an absent key never makes it fail; the root update_market_chart
\* writes the three values as they are, and on an absent key it fails with
\* KeyError before any write, the copied presentation staying as it is.
C18_UnitConvention ==
    /\ (variant = "backend" /\ market_data.type = "dict") =>
          /\ outcome.exc # "KeyError"
          /\ PastSheetValues => WriteIssued
          /\ \A i \in ValueWrites : \A key \in Metrics :
                LET given == IF key \in Keys(market_data)
                             THEN market_data.items[IndexOf(market_data, key)].v
                             ELSE DefaultOf(key)
                    cell == log[i].body[1].values[RowOf(key)][2]
                IN  /\ cell.kind = given.kind
                    /\ cell.n = given.n * 1000
    /\ variant = "root" =>
          /\ \A i \in ValueWrites :
                /\ market_data.type = "dict" /\ ~KeyAbsent
                /\ \A key \in Metrics :
                      log[i].body[1].values[RowOf(key)][2]
                          = market_data.items[IndexOf(market_data, key)].v
          /\ (KeyAbsent /\ PastSheetValues) =>
                /\ outcome.status = "raised" /\ outcome.exc = "KeyError"
                /\ outcome.at = "update_market_chart"
                /\ ~WriteIssued
                /\ drive.exists
                /\ \A id \in SpreadsheetIds : cells[id] = << >>

\* the backend wrote 800, 25 and 0.5 times 1000 for a mapping with TAM only
C18_Witness ==
    /\ variant = "backend"
    /\ Keys(market_data) = {"TAM"}
    /\ \E i \in ValueWrites :
          /\ log[i].ok
          /\ log[i].body[1].values[2][2] = Num(800000)
          /\ log[i].body[1].values[3][2] = Num(250000)
          /\ log[i].body[1].values[4][2] = Num(5000)

\* the root variant failed on the mapping with TAM only
C18_WitnessRoot ==
    /\ variant = "root"
    /\ Keys(market_data) = {"TAM"}
    /\ PastSheetValues
    /\ outcome.exc = "KeyError"
    /\ drive.exists


\* the positions << slide, element >> of the linked charts of the presentation
ChartElements ==
    UNION { { << s, j >> : j \in {k \in DOMAIN drive.slides[s] :
                                    drive.slides[s][k].sheetsChart # ""} } :
            s \in DOMAIN drive.slides }
\* slide order, and the order of the elements within a slide
Before(p, q) == p[1] < q[1] \/ (p[1] = q[1] /\ p[2] < q[2])
RefreshCalls == Calls("update_market_chart", "batchUpdate")

\* C19: when update_market_chart reaches the spreadsheet write the list of
\* chart object ids is not empty; a write that succeeded is followed by one
\* refresh batch and there is never a second; the batch holds exactly one
\* refreshSheetsChart request per linked chart of the presentation, in slide
\* order, whichever spreadsheet the chart is linked to.
C19_RefreshEveryChart ==
    /\ (pc \in {"chart_write", "chart_refresh", "chart_sleep"} \/ WriteIssued) =>
          chart.chart_object_ids # << >>
    /\ \A i \in ValueWrites : log[i].ok =>
          IF i = Len(log) THEN pc = "chart_refresh"
          ELSE (i + 1) \in RefreshCalls
    /\ Cardinality(RefreshCalls) <= 1
    /\ \A i \in RefreshCalls :
          LET requests == log[i].body IN
          /\ Len(requests) = Cardinality(ChartElements)
          /\ \A n \in DOMAIN requests :
                /\ DOMAIN requests[n] = {"refreshSheetsChart"}
                /\ requests[n].refreshSheetsChart.objectId \in ChartElements
          /\ \A n, k \in DOMAIN requests :
                n < k => Before(requests[n].refreshSheetsChart.objectId,
                                requests[k].refreshSheetsChart.objectId)

\* three charts on two slides linked to two spreadsheets: one batch of three
C19_Witness ==
    /\ Cardinality(ChartElements) = 3
    /\ Cardinality(chart.linked_sheet_ids) = 2
    /\ \E i \in RefreshCalls : log[i].ok /\ Len(log[i].body) = 3
    /\ \E i \in ValueWrites : log[i].ok

\* the spreadsheets the charts of the presentation are linked to
LinkedSpreadsheets ==
    {drive.slides[p[1]][p[2]].sheetsChart : p \in ChartElements}
SheetsCalls == {i \in DOMAIN log : log[i].svc = "sheets"}

\* C20: a run of update_market_chart reads the metadata of one spreadsheet
\* and writes to that same one, which is one of those the charts of the
\* presentation are linked to; every other spreadsheet stays as it was.
C20_OneSpreadsheetWritten ==
    /\ \A i \in SheetsCalls :
          /\ log[i].id \in LinkedSpreadsheets
          /\ log[i].id = chart.sheet_id
    /\ Cardinality({i \in SheetsCalls : log[i].op = "get"}) <= 1
    /\ Cardinality(ValueWrites) <= 1
    /\ \A id \in SpreadsheetIds :
          IF id = chart.sheet_id /\ \E i \in ValueWrites : log[i].ok
          THEN Len(cells[id]) = 1
          ELSE cells[id] = << >>

\* charts linked to two spreadsheets: one was written, the other left alone
C20_Witness ==
    /\ LinkedSpreadsheets = {"sheet-A", "sheet-B"}
    /\ chart.sheet_id = "sheet-B"
    /\ Len(cells["sheet-B"]) = 1
    /\ cells["sheet-A"] = << >>
    /\ outcome.status = "returned"


\* the metadata generation was called and yielded the empty mapping
MetadataEmpty ==
    /\ Pipeline /\ variant = "backend"
    /\ MetadataCalls # {}
    /\ generated_content = EmptyDict
ReplaceCalls == Calls("replace_text_placeholders", "batchUpdate")
CopyCalls == Calls("copy_template_presentation", "files.copy")
\* the text runs of the templates, before any substitution
TemplateRuns == {RunsFull, RunsPartial}

\* C21: in the backend generate_pitch_deck an empty metadata mapping does
\* not end the run: nothing fails in the metadata step, the configuration of
\* the name or prepare_placeholders; the template is copied under the name
\* Pitch Deck - Startup; the one text-replace batch holds zero instructions;
\* a batch that succeeded is followed by the chart update, and the run that
\* returns has exported the document with its text as the template had it.
C21_EmptyMetadataGoesOn ==
    MetadataEmpty =>
        /\ outcome.at \notin {"generate_pitch_metadata", "generate_pitch_deck",
                              "prepare_placeholders"}
        /\ \A i \in CopyCalls : log[i].body = << << "Pitch Deck - ", "Startup" >> >>
        /\ Cardinality(ReplaceCalls) <= 1
        /\ \A i \in ReplaceCalls :
              /\ log[i].body = << >>
              /\ log[i].ok =>
                    /\ drive.runs \in TemplateRuns
                    /\ pc = "update_market_chart" \/ Invoked("update_market_chart")
        /\ outcome.status = "returned" =>
              /\ Cardinality(CopyCalls) = 1 /\ Cardinality(ReplaceCalls) = 1
              /\ Invoked("update_market_chart")
              /\ \E i \in Calls("export_presentation", "files.export_media") : log[i].ok
              /\ \E f \in files :
                    /\ f.path = config.output_file /\ f.bytes = "pptx"
                    /\ f.runs \in TemplateRuns

\* the generation call failed and the deck was exported with every token of
\* the schema still in it
C21_Witness ==
    /\ MetadataEmpty
    /\ \E i \in MetadataCalls : log[i].body[1].error
    /\ outcome.status = "returned"
    /\ \E f \in files : f.bytes = "pptx" /\ f.runs = RunsFull

\* the token file was written in this step
TokenWritten ==
    \E i \in DOMAIN log' :
        i > Len(log) /\ log'[i].svc = "fs" /\ log'[i].id = "token.pickle"
\* credentials were refreshed or newly obtained in this step
CredentialsObtained ==
    \E i \in DOMAIN log' :
        /\ i > Len(log) /\ log'[i].svc = "oauth" /\ log'[i].ok
        /\ log'[i].op \in {"refresh", "run_local_server"}
        /\ i < Len(log') /\ log'[i + 1].svc = "fs"
DocumentCallIssued == \E i \in DOMAIN log : IsDocumentCall(log[i])

\* C22: the token file is written only by authenticate_google_services, in
\* the step where credentials were refreshed or obtained through the consent
\* flow, after that and before the service clients exist; valid stored
\* credentials leave the token file unchanged and unwritten; without usable
\* credentials and without the client-secrets file the function raises
\* FileNotFoundError, writes nothing, builds no client, and no call to the
\* document services has been issued.
C22_TokenFileWrites ==
    [][ /\ (TokenWritten \/ token_file' # token_file) =>
              /\ pc = "authenticate_google_services"
              /\ ~services
              /\ CredentialsObtained /\ TokenWritten
              /\ token_file'.exists /\ token_file'.creds.valid
        /\ (pc = "authenticate_google_services" /\ services' /\ ~StoredValid) => TokenWritten
        /\ (pc = "authenticate_google_services" /\ StoredValid) =>
              /\ ~TokenWritten /\ token_file' = token_file
        /\ (pc = "authenticate_google_services"
              /\ ~StoredValid /\ ~StoredRefreshable /\ ~oauth_file) =>
              /\ outcome'.status = "raised" /\ outcome'.exc = "FileNotFoundError"
              /\ ~TokenWritten /\ token_file' = token_file
              /\ ~services'
              /\ log' = log /\ ~DocumentCallIssued
      ]_vars

\* no token file at the start: the consent flow ran and the file was written
C22_Witness ==
    /\ \E i \in DOMAIN log :
          /\ log[i].svc = "oauth" /\ log[i].op = "run_local_server" /\ log[i].ok
          /\ i < Len(log) /\ log[i + 1].svc = "fs" /\ log[i + 1].id = "token.pickle"
    /\ token_file.exists /\ token_file.creds.valid
    /\ services

\* no token file and no client-secrets file: FileNotFoundError, nothing written
C22_WitnessMissingSecrets ==
    /\ outcome.exc = "FileNotFoundError"
    /\ ~token_file.exists
    /\ ~oauth_file
    /\ \A i \in DOMAIN log : log[i].svc # "fs"


\* the files of the working directory at a path
FilesAt(fs, path) == {f \in fs : f.path = path}
PathComputed == config.output_file # << >>
PeerPathComputed == peer.path # << >>

\* C23: the output path of the backend generate_pitch_deck is the working
\* directory joined with pitch_deck_<second>.pptx, for the second at which
\* it is computed, and nothing else; two requests have the same path exactly
\* when they computed it in the same second; an export leaves one file at
\* its path, holding what that export wrote, whatever was there before, and
\* touches no other path; a request answered with the file is answered with
\* what the file at its path holds when the response is sent.
C23_PathBySecondAndOverwrite ==
    [][ /\ (pc = "load_configuration" /\ pc' = "authenticate_google_services") =>
              config'.output_file = << "cwd", "pitch_deck_", clock, ".pptx" >>
        /\ (peer.pc = "path" /\ peer'.pc = "export") =>
              peer'.path = << "cwd", "pitch_deck_", clock, ".pptx" >>
        /\ (PathComputed' /\ PeerPathComputed') =>
              (config'.output_file = peer'.path <=> config'.output_file[3] = peer'.path[3])
        /\ (pc = "export_presentation" /\ pc' # pc) =>
              /\ Cardinality(FilesAt(files', config.output_file)) = 1
              /\ LET f == FileAt(files', config.output_file) IN
                 IF pc' = "return"
                 THEN f.bytes = "pptx" /\ f.runs = drive.runs
                 ELSE f.bytes = "" /\ f.runs = {}
              /\ \A f \in files \cup files' :
                    f.path # config.output_file => (f \in files /\ f \in files')
        /\ (peer.pc = "export" /\ peer'.pc # "export") =>
              /\ Cardinality(FilesAt(files', peer.path)) = 1
              /\ LET f == FileAt(files', peer.path) IN
                 IF peer'.pc = "respond"
                 THEN f.bytes = "pptx" /\ f.runs = PeerRuns
                 ELSE f.bytes = "" /\ f.runs = {}
              /\ \A f \in files \cup files' :
                    f.path # peer.path => (f \in files /\ f \in files')
        /\ (pc = "respond" /\ response'.status = 200) =>
              /\ FilesAt(files', config.output_file) # {}
              /\ response'.body = FileAt(files', config.output_file)
        /\ (peer.pc = "respond" /\ peer'.status = 200) =>
              /\ FilesAt(files, peer.path) # {}
              /\ peer'.body = FileAt(files, peer.path)
      ]_vars

\* two requests computed their path in the same second; the second request
\* exported last, and the first was answered with the deck of the second
C23_Witness ==
    /\ entry = "generate_deck"
    /\ PathComputed /\ config.output_file = peer.path
    /\ \E i \in Calls("export_presentation", "files.export_media") : log[i].ok
    /\ response.status = 200
    /\ response.body.runs = PeerRuns

\* a second apart: two files, each request answered with its own deck
C23_WitnessApart ==
    /\ PathComputed /\ PeerPathComputed /\ config.output_file # peer.path
    /\ response.status = 200 /\ response.body.runs = drive.runs
    /\ peer.status = 200 /\ peer.body.runs = PeerRuns

=============================================================================
